---- MODULE Spec2Model ----
(***************************************************************************)
(* The Airy function routine airy() of include/itpp/base/bessel/airy.cpp   *)
(* (Cephes), as a state machine: one call at a time, one action per block  *)
(* of the routine, the locals, the domain flag, the four output locations  *)
(* and the module-level statics as state.                                  *)
(*                                                                         *)
(* Arithmetic.  The routine computes in C double.  The model computes in   *)
(* a binary floating-point format with the same rules (round to nearest,   *)
(* ties to even; signed zeros, subnormals, infinities and NaN; the         *)
(* exponent range of binary64) and a significand of Prec bits, so that     *)
(* every operation stays inside 32-bit integers.  A value is a             *)
(* record [c, s, m, e]: class c ("f" finite, "i" infinite, "n" NaN),       *)
(* sign s, and for a finite value the magnitude m * 2^e.  The operations   *)
(* on values are functions, FAdd[a, b]: an argument is evaluated once.     *)
(***************************************************************************)
EXTENDS Integers, Sequences, FiniteSets

\* Significand width of the floating-point format (binary64: 53).
Prec == 12

\* Largest binary exponent of a finite value (binary64; MAXNUM is just under
\* 2**1024).
Emax == 1023
Emin == 1 - Emax
\* Exponent of the unit in the last place of the smallest normal number.
EminQ == Emin - Prec + 1

P2 == <<1, 2, 4, 8, 16, 32, 64, 128, 256, 512, 1024, 2048, 4096, 8192, 16384,
        32768, 65536, 131072, 262144, 524288, 1048576, 2097152, 4194304,
        8388608, 16777216, 33554432, 67108864, 134217728, 268435456,
        536870912, 1073741824>>
Pow2(n) == P2[n + 1]

Max(a, b) == IF a >= b THEN a ELSE b
Min(a, b) == IF a <= b THEN a ELSE b

\* Number of bits of the natural number n (0 for 0).
BitLen[n \in Int] ==
  IF n >= Pow2(30) THEN 31
  ELSE CHOOSE l \in 0..30 : n < Pow2(l) /\ (l = 0 \/ Pow2(l - 1) <= n)

\* The values a double holds: finite ("f"), infinite ("i"), NaN ("n"), and
\* the content of a location nothing has been stored to ("u").
Doubles == [c : {"f", "i", "n", "u"}, s : {0, 1}, m : Nat, e : Int]

F(s, m, e) == [c |-> "f", s |-> s, m |-> m, e |-> e]
Inf(s) == [c |-> "i", s |-> s, m |-> 0, e |-> 0]
NaN == [c |-> "n", s |-> 0, m |-> 0, e |-> 0]
Zero == F(0, 0, 0)
NegZero == F(1, 0, 0)

IsNaN(a) == a.c = "n"
IsInf(a) == a.c = "i"
IsFinite(a) == a.c = "f"
IsZero(a) == a.c = "f" /\ a.m = 0

\* The representation of a rounded magnitude: a carry out of the significand
\* renormalises, an exponent above Emax overflows to infinity.
Pack[s \in Int, m \in Int, e \in Int] ==
  IF m = 0 THEN F(s, 0, 0)
  ELSE LET m2 == IF m = Pow2(Prec) THEN Pow2(Prec - 1) ELSE m
           e2 == IF m = Pow2(Prec) THEN e + 1 ELSE e
       IN IF e2 + Prec - 1 > Emax THEN Inf(s) ELSE F(s, m2, e2)

\* M * 2^E (with something nonzero below it when sticky) rounded to the
\* format: to nearest, ties to even; gradual underflow below 2^Emin.
Round[s \in Int, M \in Int, E \in Int, sticky \in BOOLEAN] ==
  IF M = 0 THEN F(s, 0, 0)
  ELSE LET L == BitLen[M]
           sh == Max(L - Prec, EminQ - E)
       IN IF sh <= 0
          THEN LET ls == Min(Prec - L, E - EminQ)
               IN Pack[s, M * Pow2(ls), E - ls]
          ELSE IF sh > L + 1 THEN F(s, 0, 0)
          ELSE LET q == M \div Pow2(sh)
                   r == M % Pow2(sh)
                   half == Pow2(sh - 1)
                   up == r > half \/ (r = half /\ (sticky \/ q % 2 = 1))
               IN Pack[s, IF up THEN q + 1 ELSE q, E + sh]

\* A finite nonzero value with its significand shifted up to Prec bits (the
\* exponent unbounded below): the operand form of division and square root.
NormM[a \in Doubles] == a.m * Pow2(Prec - BitLen[a.m])
NormE[a \in Doubles] == a.e - (Prec - BitLen[a.m])

FNeg[a \in Doubles] == IF IsNaN(a) THEN a ELSE [a EXCEPT !.s = 1 - a.s]
FAbs[a \in Doubles] == IF IsNaN(a) THEN a ELSE [a EXCEPT !.s = 0]

\* Magnitude order of two finite values: -1, 0, 1.
CmpMag[a \in Doubles, b \in Doubles] ==
  IF a.m = 0 \/ b.m = 0
  THEN (IF a.m = b.m THEN 0 ELSE IF a.m = 0 THEN -1 ELSE 1)
  ELSE IF a.e # b.e THEN (IF a.e < b.e THEN -1 ELSE 1)
  ELSE IF a.m = b.m THEN 0 ELSE IF a.m < b.m THEN -1 ELSE 1

\* Order of two values that are not NaN: -1, 0, 1 (-0 = +0).
Cmp[a \in Doubles, b \in Doubles] ==
  IF IsZero(a) /\ IsZero(b) THEN 0
  ELSE IF a.s # b.s THEN (IF a.s = 1 THEN -1 ELSE 1)
  ELSE LET mag == IF IsInf(a) /\ IsInf(b) THEN 0
                  ELSE IF IsInf(a) THEN 1
                  ELSE IF IsInf(b) THEN -1
                  ELSE CmpMag[a, b]
       IN IF a.s = 1 THEN 0 - mag ELSE mag

\* The C comparisons: every one is false when an operand is NaN.
FLt[a \in Doubles, b \in Doubles] == ~IsNaN(a) /\ ~IsNaN(b) /\ Cmp[a, b] < 0
FLe[a \in Doubles, b \in Doubles] == ~IsNaN(a) /\ ~IsNaN(b) /\ Cmp[a, b] <= 0
FGt[a \in Doubles, b \in Doubles] == ~IsNaN(a) /\ ~IsNaN(b) /\ Cmp[a, b] > 0
FGe[a \in Doubles, b \in Doubles] == ~IsNaN(a) /\ ~IsNaN(b) /\ Cmp[a, b] >= 0
FEq[a \in Doubles, b \in Doubles] == ~IsNaN(a) /\ ~IsNaN(b) /\ Cmp[a, b] = 0

\* a + b for finite nonzero a, b with a.e >= b.e.
AddOrdered[a \in Doubles, b \in Doubles] ==
  LET d == a.e - b.e
  IN IF d > Prec + 2 THEN a
     ELSE LET A == a.m * Pow2(d)
              S == IF a.s = b.s THEN A + b.m ELSE A - b.m
          IN IF S = 0 THEN Zero
             ELSE IF S > 0 THEN Round[a.s, S, b.e, FALSE]
             ELSE Round[b.s, 0 - S, b.e, FALSE]

FAdd[a \in Doubles, b \in Doubles] ==
  IF IsNaN(a) \/ IsNaN(b) THEN NaN
  ELSE IF IsInf(a) THEN (IF IsInf(b) /\ a.s # b.s THEN NaN ELSE a)
  ELSE IF IsInf(b) THEN b
  ELSE IF IsZero(a) /\ IsZero(b) THEN (IF a.s = 1 /\ b.s = 1 THEN NegZero ELSE Zero)
  ELSE IF IsZero(a) THEN b
  ELSE IF IsZero(b) THEN a
  ELSE IF a.e >= b.e THEN AddOrdered[a, b] ELSE AddOrdered[b, a]

FSub[a \in Doubles, b \in Doubles] == FAdd[a, FNeg[b]]

FMul[a \in Doubles, b \in Doubles] ==
  IF IsNaN(a) \/ IsNaN(b) THEN NaN
  ELSE LET s == IF a.s = b.s THEN 0 ELSE 1
       IN IF IsInf(a) \/ IsInf(b)
          THEN (IF IsZero(a) \/ IsZero(b) THEN NaN ELSE Inf(s))
          ELSE IF IsZero(a) \/ IsZero(b) THEN F(s, 0, 0)
          ELSE Round[s, a.m * b.m, a.e + b.e, FALSE]

FDiv[a \in Doubles, b \in Doubles] ==
  IF IsNaN(a) \/ IsNaN(b) THEN NaN
  ELSE LET s == IF a.s = b.s THEN 0 ELSE 1
       IN IF IsInf(a) THEN (IF IsInf(b) THEN NaN ELSE Inf(s))
          ELSE IF IsInf(b) THEN F(s, 0, 0)
          ELSE IF IsZero(b) THEN (IF IsZero(a) THEN NaN ELSE Inf(s))
          ELSE IF IsZero(a) THEN F(s, 0, 0)
          ELSE LET N == NormM[a] * Pow2(Prec + 2)
                   D == NormM[b]
               IN Round[s, N \div D, NormE[a] - NormE[b] - (Prec + 2),
                        N % D # 0]

\* Integer square root: the largest r with r * r <= n, bit by bit from 2^b.
ISqrtFrom[n \in Int, r \in Int, b \in Int] ==
  IF b < 0 THEN r
  ELSE IF (r + Pow2(b)) * (r + Pow2(b)) <= n THEN ISqrtFrom[n, r + Pow2(b), b - 1]
  ELSE ISqrtFrom[n, r, b - 1]
ISqrt[n \in Int] == ISqrtFrom[n, 0, Prec]

FSqrt[a \in Doubles] ==
  IF IsNaN(a) THEN NaN
  ELSE IF IsZero(a) THEN a
  ELSE IF a.s = 1 THEN NaN
  ELSE IF IsInf(a) THEN a
  ELSE LET e0 == NormE[a]
           k == IF (e0 - Prec) % 2 = 0 THEN Prec + 2 ELSE Prec + 1
           N == NormM[a] * Pow2(k)
           r == ISqrt[N]
       IN Round[0, r, (e0 - k) \div 2, r * r # N]

\* The integer n as a value of the format.
FromInt[n \in Int] == IF n >= 0 THEN Round[0, n, 0, FALSE] ELSE Round[1, 0 - n, 0, FALSE]

P5 == <<1, 5, 25, 125, 625, 3125, 15625, 78125, 390625, 1953125, 9765625,
        48828125, 244140625>>
Pow5(n) == P5[n + 1]

\* Long division of the naturals n / d (d <= 5^12), three bits a step: the
\* quotient <<q, r, e>>, q * 2^e with remainder r, carried on until q has at
\* least 28 bits.
LongDiv[q \in Int, r \in Int, d \in Int, e \in Int] ==
  IF q >= Pow2(27) THEN <<q, r, e>>
  ELSE LongDiv[8 * q + (8 * r) \div d, (8 * r) % d, d, e - 3]

\* The decimal literal m * 10^p (-17 <= p <= 0, m of at most nine digits) as
\* a value of the format, correctly rounded as a C compiler converts it:
\* m / 5^-p by long division (the powers of five above 5^12 divided out of
\* the quotient), times 2^p.
Dec[m \in Int, p \in Int] ==
  LET s == IF m < 0 THEN 1 ELSE 0
      n == IF m < 0 THEN 0 - m ELSE m
      d1 == Pow5(Min(0 - p, 12))
      d2 == Pow5(Max(0 - p - 12, 0))
      Q == LongDiv[n \div d1, n % d1, d1, p]
  IN IF n = 0 THEN Zero
     ELSE Round[s, Q[1] \div d2, Q[3], Q[2] # 0 \/ Q[1] % d2 # 0]

\* The neighbours of a finite value in the format.
NextUpMag[a \in Doubles] ==
  IF a.m = 0 THEN F(a.s, 1, EminQ) ELSE Pack[a.s, a.m + 1, a.e]
NextDownMag[a \in Doubles] ==
  IF a.m = Pow2(Prec - 1) /\ a.e > EminQ THEN F(a.s, Pow2(Prec) - 1, a.e - 1)
  ELSE IF a.m = 1 THEN F(a.s, 0, 0)
  ELSE F(a.s, a.m - 1, a.e)
NextUp[a \in Doubles] == IF a.s = 0 THEN NextUpMag[a] ELSE NextDownMag[a]
NextDown[a \in Doubles] == IF a.s = 0 THEN NextDownMag[a] ELSE NextUpMag[a]

One == FromInt[1]
Two == FromInt[2]
Three == FromInt[3]
Four == FromInt[4]
MinusTwo == FromInt[-2]
Quarter == Dec[25, -2]
MinusHalf == Dec[-5, -1]

(***************************************************************************)
(* The C library functions the routine calls (sqrt is FSqrt above).  They  *)
(* are computed in the format: argument reduction in two parts, then the   *)
(* Taylor polynomial, which is accurate to a few units in the last place.  *)
(***************************************************************************)
\* The nearest integer to a finite value of magnitude below 2^30.
RoundToInt[a \in Doubles] ==
  LET mag == IF a.m = 0 THEN 0
             ELSE IF a.e >= 0 THEN a.m * Pow2(a.e)
             ELSE IF 0 - a.e > 30 THEN 0
             ELSE (a.m + Pow2(0 - a.e - 1)) \div Pow2(0 - a.e)
  IN IF a.s = 1 THEN 0 - mag ELSE mag

\* v * 2^n.
ScaleB[v \in Doubles, n \in Int] ==
  IF IsFinite(v) /\ v.m # 0 THEN Round[v.s, v.m, v.e + n, FALSE] ELSE v

LOG2E == Dec[144269504, -8]
LN2HI == Dec[6875, -4]
LN2LO == Dec[564718056, -11]
TWOOPI == Dec[636619772, -9]
PIO2HI == Dec[15703125, -7]
PIO2LO == Dec[483826795, -12]

\* The Taylor polynomial of exp, 1 + r/1 (1 + r/2 (... (1 + r/N))), from the
\* innermost factor out: acc is the factor built so far, i the next
\* denominator.
ExpTerms[acc \in Doubles, r \in Doubles, i \in Int] ==
  IF i = 0 THEN acc
  ELSE ExpTerms[FAdd[One, FMul[FDiv[r, FromInt[i]], acc]], r, i - 1]

\* exp(a) from the quotient n = round(a / ln2): with r = a - n ln2 (the
\* subtraction in two parts), exp(a) = 2^n exp(r).
ExpScaled[r \in Doubles, n \in Int] == ScaleB[ExpTerms[One, r, 8], n]
ExpReduced[a \in Doubles, n \in Int] ==
  IF n = 0 THEN ExpScaled[a, 0]
  ELSE ExpScaled[FSub[FSub[a, FMul[FromInt[n], LN2HI]], FMul[FromInt[n], LN2LO]], n]

\* exp(a); beyond +-ExpLimit the result is infinite or zero in any case.
ExpLimit == FromInt[1024]
FExp[a \in Doubles] ==
  IF IsNaN(a) THEN NaN
  ELSE IF IsInf(a) THEN (IF a.s = 0 THEN a ELSE Zero)
  ELSE IF FGt[FAbs[a], ExpLimit] THEN (IF a.s = 0 THEN Inf(0) ELSE Zero)
  ELSE ExpReduced[a, RoundToInt[FMul[a, LOG2E]]]

\* The Taylor polynomials of cos (i from 7 down to 1) and of sin(r)/r (i from
\* 8 down to 2), 1 - r2/(i(i+1)) (1 - r2/((i+2)(i+3)) (...)), r2 = r * r,
\* from the innermost factor out.
TrigTerms[acc \in Doubles, r2 \in Doubles, i \in Int] ==
  IF i <= 0 THEN acc
  ELSE TrigTerms[FSub[One, FMul[FDiv[r2, FromInt[i * (i + 1)]], acc]], r2, i - 2]

\* The quadrant n and the remainder r of a = n pi/2 + r, |r| <= pi/4.
TrigQuadrant[a \in Doubles] == RoundToInt[FMul[a, TWOOPI]]
TrigRemainder[a \in Doubles, n \in Int] ==
  IF n = 0 THEN a
  ELSE FSub[FSub[a, FMul[FromInt[n], PIO2HI]], FMul[FromInt[n], PIO2LO]]
SinPoly[r \in Doubles] == FMul[r, TrigTerms[One, FMul[r, r], 8]]
CosPoly[r \in Doubles] == TrigTerms[One, FMul[r, r], 7]

\* sin(a) and cos(a) from the quadrant n.
SinQuadrant[a \in Doubles, n \in Int] ==
  IF n % 4 = 0 THEN SinPoly[TrigRemainder[a, n]]
  ELSE IF n % 4 = 1 THEN CosPoly[TrigRemainder[a, n]]
  ELSE IF n % 4 = 2 THEN FNeg[SinPoly[TrigRemainder[a, n]]]
  ELSE FNeg[CosPoly[TrigRemainder[a, n]]]
CosQuadrant[a \in Doubles, n \in Int] ==
  IF n % 4 = 0 THEN CosPoly[TrigRemainder[a, n]]
  ELSE IF n % 4 = 1 THEN FNeg[SinPoly[TrigRemainder[a, n]]]
  ELSE IF n % 4 = 2 THEN FNeg[CosPoly[TrigRemainder[a, n]]]
  ELSE SinPoly[TrigRemainder[a, n]]

\* sin(a) and cos(a).  Arguments of magnitude TrigLimit and above are outside
\* the calls the model makes (the reduction needs the quadrant as an
\* integer).
TrigLimit == FromInt[Pow2(18)]
FSin[a \in Doubles] ==
  IF IsNaN(a) \/ IsInf(a) \/ FGe[FAbs[a], TrigLimit] THEN NaN
  ELSE IF IsZero(a) THEN a
  ELSE SinQuadrant[a, TrigQuadrant[a]]

FCos[a \in Doubles] ==
  IF IsNaN(a) \/ IsInf(a) \/ FGe[FAbs[a], TrigLimit] THEN NaN
  ELSE CosQuadrant[a, TrigQuadrant[a]]

(***************************************************************************)
(* The polynomial evaluators polevl and p1evl (declared in                 *)
(* bessel_internal.h): Horner's rule over the first N + 1 (polevl) or N    *)
(* (p1evl, leading coefficient 1) entries of coef, highest degree first.   *)
(***************************************************************************)
Horner[ans \in Doubles, xx \in Doubles, coef \in Seq(Doubles), i \in Int, last \in Int] ==
  IF i > last THEN ans
  ELSE Horner[FAdd[FMul[ans, xx], coef[i]], xx, coef, i + 1, last]

polevl[xx \in Doubles, coef \in Seq(Doubles), N \in Int] == Horner[coef[1], xx, coef, 2, N + 1]
p1evl[xx \in Doubles, coef \in Seq(Doubles), N \in Int] == Horner[FAdd[xx, coef[1]], xx, coef, 2, N]

(***************************************************************************)
(* The constants and the statics of airy.cpp.  A literal of more than nine *)
(* significant digits is written with nine, which is more than the format  *)
(* holds; MAXNUM and MACHEP are, as in binary64, the largest finite value  *)
(* and the unit roundoff of the format.                                    *)
(***************************************************************************)
c1 == Dec[355028054, -9]
c2 == Dec[258819404, -9]
sqrt3 == Dec[173205081, -8]
sqpii == Dec[564189584, -9]

MAXAIRY == Dec[2577, -2]
PI == Dec[314159265, -8]
\* 1.79769313486231570815E308 = 2**1024 * (1 - MACHEP)
MAXNUM == F(0, Pow2(Prec) - 1, Emax - Prec + 1)
\* 1.11022302462515654042E-16 = 2**-53
MACHEP == F(0, Pow2(Prec - 1), 1 - 2 * Prec)

\* static double AN[8], lines 86-95.
AN ==
  <<Dec[346538102, -9],
    Dec[120075953, -7],
    Dec[762796054, -7],
    Dec[168089225, -6],
    Dec[159756391, -6],
    Dec[705360907, -7],
    Dec[140264691, -7],
    Dec[100000000, -8]>>

\* static double AD[8], lines 96-105.
AD ==
  <<Dec[567594533, -9],
    Dec[147562563, -7],
    Dec[845138970, -7],
    Dec[177318088, -6],
    Dec[164234693, -6],
    Dec[714778401, -7],
    Dec[140959136, -7],
    Dec[100000000, -8]>>

\* static double APN[8], lines 107-116.
APN ==
  <<Dec[613759185, -9],
    Dec[147454671, -7],
    Dec[820584123, -7],
    Dec[171184781, -6],
    Dec[159317847, -6],
    Dec[699778599, -7],
    Dec[139470857, -7],
    Dec[100000000, -8]>>

\* static double APD[8], lines 117-126.
APD ==
  <<Dec[334203678, -9],
    Dec[111810297, -7],
    Dec[711727352, -7],
    Dec[158778084, -6],
    Dec[153206427, -6],
    Dec[686752305, -7],
    Dec[138498635, -7],
    Dec[100000000, -8]>>

\* static double BN16[5], lines 129-135.
BN16 ==
  <<Dec[-253240796, -9],
    Dec[575285167, -9],
    Dec[-329907037, -9],
    Dec[644404069, -10],
    Dec[-382519547, -11]>>

\* static double BD16[5], lines 136-143.
BD16 ==
  <<Dec[-715685095, -8],
    Dec[106039581, -7],
    Dec[-523246636, -8],
    Dec[957395864, -9],
    Dec[-550828147, -10]>>

\* static double BPPN[5], lines 146-152.
BPPN ==
  <<Dec[465461163, -9],
    Dec[-108992174, -8],
    Dec[638800117, -9],
    Dec[-126844350, -9],
    Dec[762487844, -11]>>

\* static double BPPD[5], lines 153-160.
BPPD ==
  <<Dec[-870622788, -8],
    Dec[138993163, -7],
    Dec[-714116145, -8],
    Dec[134008596, -8],
    Dec[-784273211, -10]>>

\* static double AFN[9], lines 162-172.
AFN ==
  <<Dec[-131696323, -9],
    Dec[-626456544, -9],
    Dec[-693158036, -9],
    Dec[-279779982, -9],
    Dec[-491900133, -10],
    Dec[-406265924, -11],
    Dec[-159276496, -12],
    Dec[-277649108, -14],
    Dec[-167787698, -16]>>

\* static double AFD[9], lines 173-184.
AFD ==
  <<Dec[133560421, -7],
    Dec[326825033, -7],
    Dec[267367041, -7],
    Dec[918707403, -8],
    Dec[147529147, -8],
    Dec[115687174, -9],
    Dec[440291642, -11],
    Dec[754720348, -13],
    Dec[451850093, -15]>>

\* static double AGN[11], lines 186-198.
AGN ==
  <<Dec[197339932, -10],
    Dec[391103030, -9],
    Dec[106579898, -8],
    Dec[939169230, -9],
    Dec[351465656, -9],
    Dec[633888920, -10],
    Dec[585804113, -11],
    Dec[282851601, -12],
    Dec[698793670, -14],
    Dec[811789240, -16],
    Dec[34155178, -17]>>

\* static double AGD[10], lines 199-211.
AGD ==
  <<Dec[930892908, -8],
    Dec[198352929, -7],
    Dec[155646629, -7],
    Dec[547686069, -8],
    Dec[954293612, -9],
    Dec[864580826, -10],
    Dec[412656524, -11],
    Dec[101259085, -12],
    Dec[117166733, -14],
    Dec[491834570, -17]>>

\* static double APFN[9], lines 214-224.
APFN ==
  <<Dec[185365624, -9],
    Dec[886712188, -9],
    Dec[987391982, -9],
    Dec[401241082, -9],
    Dec[710304926, -10],
    Dec[590618658, -11],
    Dec[233051409, -12],
    Dec[408718778, -14],
    Dec[248379933, -16]>>

\* static double APFD[9], lines 225-236.
APFD ==
  <<Dec[147345855, -7],
    Dec[375423933, -7],
    Dec[314657751, -7],
    Dec[109969125, -7],
    Dec[178885055, -8],
    Dec[141733276, -9],
    Dec[544066067, -11],
    Dec[939421291, -13],
    Dec[565978713, -15]>>

\* static double APGN[11], lines 238-250.
APGN ==
  <<Dec[-355615429, -10],
    Dec[-637311518, -9],
    Dec[-170856739, -8],
    Dec[-150221872, -8],
    Dec[-563606666, -9],
    Dec[-102101031, -9],
    Dec[-948396696, -11],
    Dec[-460325307, -12],
    Dec[-114300836, -13],
    Dec[-133415519, -15],
    Dec[-56380383, -17]>>

\* static double APGD[11], lines 251-263 (10 initialisers; the rest of the array is zero).
APGD ==
  <<Dec[985865802, -8],
    Dec[216401867, -7],
    Dec[173130776, -7],
    Dec[617872175, -8],
    Dec[108848694, -8],
    Dec[995005543, -10],
    Dec[478468200, -11],
    Dec[118159633, -12],
    Dec[137480674, -14],
    Dec[579912515, -17],
    Zero>>

\* The statics as the memory a call finds them in.
StaticsInit ==
  [c1 |-> c1, c2 |-> c2, sqrt3 |-> sqrt3, sqpii |-> sqpii,
   AN |-> AN, AD |-> AD, APN |-> APN, APD |-> APD,
   BN16 |-> BN16, BD16 |-> BD16, BPPN |-> BPPN, BPPD |-> BPPD,
   AFN |-> AFN, AFD |-> AFD, AGN |-> AGN, AGD |-> AGD,
   APFN |-> APFN, APFD |-> APFD, APGN |-> APGN, APGD |-> APGD]

(***************************************************************************)
(* State.                                                                  *)
(*   pc       where the current call stands: "idle" (no call yet), a line  *)
(*            of airy.cpp ("L272", ...), or "done" (the call has returned) *)
(*   x        the argument of the current call                             *)
(*   domflg   the local domflg                                             *)
(*   loc      the locals z, zz, t, f, g, uf, ug, k, zeta, theta            *)
(*   out      the caller's locations *ai, *aip, *bi, *bip                  *)
(*   wr       for each output, the line of airy.cpp that stored it last in *)
(*            this call (0: not stored)                                    *)
(*   ret      the returned status, retLine the line of the return taken    *)
(*   n1, n2   the iterations the two while loops have made in this call,   *)
(*            counted up to MaxIter                                        *)
(*   statics  c1, c2, sqrt3, sqpii and the sixteen coefficient tables      *)
(*   seen     an earlier call the caller remembers: its x, status, outputs *)
(***************************************************************************)
MaxIter == 24

VARIABLES pc, x, domflg, loc, out, wr, ret, retLine, n1, n2, statics, seen

vars == <<pc, x, domflg, loc, out, wr, ret, retLine, n1, n2, statics, seen>>

\* The content of a double that has not been assigned.
Undef == [c |-> "u", s |-> 0, m |-> 0, e |-> 0]

LocInit ==
  [z |-> Undef, zz |-> Undef, t |-> Undef, f |-> Undef, g |-> Undef,
   uf |-> Undef, ug |-> Undef, k |-> Undef, zeta |-> Undef, theta |-> Undef]
OutInit == [ai |-> Undef, aip |-> Undef, bi |-> Undef, bip |-> Undef]
WrInit == [ai |-> 0, aip |-> 0, bi |-> 0, bip |-> 0]
NoCall == [valid |-> FALSE, x |-> Undef, ret |-> 0, out |-> OutInit]

\* The thresholds of the regime selection.
N209 == Dec[-209, -2]
P209 == Dec[209, -2]
T832 == Dec[83203353, -7]

\* The arguments the caller passes: the thresholds and their neighbours in
\* the format, values inside every regime, and the non-finite doubles.
Inputs ==
  {Zero, One, FromInt[-1], FromInt[5], FromInt[-5], FromInt[-10], FromInt[12],
   N209, NextDown[N209], NextUp[N209], P209, NextDown[P209],
   T832, NextUp[T832], MAXAIRY, NextUp[MAXAIRY],
   NaN, Inf(0), Inf(1)}

Init ==
  /\ pc = "idle"
  /\ x = Zero
  /\ domflg = 0
  /\ loc = LocInit
  /\ out = OutInit
  /\ wr = WrInit
  /\ ret = 0
  /\ retLine = 0
  /\ n1 = 0
  /\ n2 = 0
  /\ statics = StaticsInit
  /\ seen = NoCall

\* The routine without line 271: domflg as the last call left it.
DomflgKept(old) == old
\* domflg = 0;  (line 271)
DomflgAtEntry(old) == 0
\* The test of line 272 with >= for >.
IsOverflowGe(xx) == FGe[xx, MAXAIRY]
\* if (x > MAXAIRY)
IsOverflow(xx) == FGt[xx, MAXAIRY]
\* The test of line 280 with <= for <.
InNegAsymLe(xx) == FLe[xx, N209]
\* if (x < -2.09)
InNegAsym(xx) == FLt[xx, N209]
\* The test of line 303 with > for >=.
InPosAsymGt(xx) == FGt[xx, P209]
\* if (x >= 2.09)
InPosAsym(xx) == FGe[xx, P209]
\* The test of line 317 with >= for >.
IsDirectBiGe(xx) == FGe[xx, T832]
\* if (x > 8.3203353)
IsDirectBi(xx) == FGt[xx, T832]
\* domflg = 15;  (line 281)
DomflgNeg == 15
\* Line 304 setting all four bits, as line 281 does.
DomflgPosAll == DomflgNeg
\* domflg = 5;  (line 304)
DomflgPos == 5
\* The bit test reading the next higher bit.
BitClearShifted(flg, mask) == (flg \div (2 * mask)) % 2 = 0
\* (domflg & mask) == 0, mask one bit
BitClear(flg, mask) == (flg \div mask) % 2 = 0
\* The loop test written !(t <= MACHEP): true of a NaN.
LoopCondNotLe(t) == ~FLe[t, MACHEP]
\* while (t > MACHEP)
LoopCond(t) == FGt[t, MACHEP]

\* airy(x, &ai, &aip, &bi, &bip): a new call, with fresh locals and output
\* locations nothing has stored to, up to domflg = 0.  The caller may keep
\* the call that just returned as the one it remembers.
Call(xx, keep) ==
  /\ pc \in {"idle", "done"}
  /\ pc' = "L272"
  /\ x' = xx
  /\ domflg' = DomflgAtEntry(domflg)
  /\ loc' = LocInit
  /\ out' = OutInit
  /\ wr' = WrInit
  /\ ret' = 0
  /\ retLine' = 0
  /\ n1' = 0
  /\ n2' = 0
  /\ seen' = IF keep \/ pc = "idle" THEN seen
             ELSE [valid |-> TRUE, x |-> x, ret |-> ret, out |-> out]
  /\ UNCHANGED statics

\* Lines 272-278: the overflow return.
Overflow ==
  /\ pc = "L272"
  /\ IsOverflow(x)
  /\ out' = [ai |-> Zero, aip |-> Zero, bi |-> MAXNUM, bip |-> MAXNUM]
  /\ wr' = [ai |-> 273, aip |-> 274, bi |-> 275, bip |-> 276]
  /\ ret' = -1
  /\ retLine' = 277
  /\ pc' = "done"
  /\ UNCHANGED <<x, domflg, loc, n1, n2, statics, seen>>

\* The routine without t = sqrt(t).
RootSkipped(t0) == t0
\* t = sqrt(t);  (lines 284, 308)
RootOfRoot(t0) == FSqrt[t0]

\* 1.0 + zz * polevl(zz, N, 8) / p1evl(zz, D, 9)  (lines 288, 295)
RationalF[zz \in Doubles, N \in Seq(Doubles), D \in Seq(Doubles)] ==
  FAdd[One, FDiv[FMul[zz, polevl[zz, N, 8]], p1evl[zz, D, 9]]]
\* z * polevl(zz, N, 10) / p1evl(zz, D, 10)  (lines 289, 296)
RationalG[z \in Doubles, zz \in Doubles, N \in Seq(Doubles), D \in Seq(Doubles)] ==
  FDiv[FMul[z, polevl[zz, N, 10]], p1evl[zz, D, 10]]

\* Lines 280-283: into the negative asymptotic branch; t = sqrt(-x), zeta.
NegEnter ==
  /\ pc = "L272"
  /\ ~IsOverflow(x)
  /\ InNegAsym(x)
  /\ domflg' = DomflgNeg
  /\ LET t == FSqrt[FNeg[x]]
     IN loc' = [loc EXCEPT !.t = t,
                           !.zeta = FDiv[FMul[FMul[MinusTwo, x], t], Three]]
  /\ pc' = "L284"
  /\ UNCHANGED <<x, out, wr, ret, retLine, n1, n2, statics, seen>>

\* Lines 284-287: t = sqrt(t), k = sqpii / t, z, zz.
NegScale ==
  /\ pc = "L284"
  /\ LET t == RootOfRoot(loc.t)
         z == FDiv[One, loc.zeta]
     IN loc' = [loc EXCEPT !.t = t, !.k = FDiv[statics.sqpii, t], !.z = z,
                           !.zz = FMul[z, z]]
  /\ pc' = "L288"
  /\ UNCHANGED <<x, domflg, out, wr, ret, retLine, n1, n2, statics, seen>>

\* Lines 288-289: uf and ug from the AFN/AFD and AGN/AGD tables.
NegRational ==
  /\ pc = "L288"
  /\ loc' = [loc EXCEPT
               !.uf = RationalF[loc.zz, statics.AFN, statics.AFD],
               !.ug = RationalG[loc.z, loc.zz, statics.AGN, statics.AGD]]
  /\ pc' = "L290"
  /\ UNCHANGED <<x, domflg, out, wr, ret, retLine, n1, n2, statics, seen>>

\* Lines 290-292: theta, f = sin(theta), g = cos(theta).
NegTrig ==
  /\ pc = "L290"
  /\ LET theta == FAdd[loc.zeta, FMul[Quarter, PI]]
     IN loc' = [loc EXCEPT !.theta = theta, !.f = FSin[theta], !.g = FCos[theta]]
  /\ pc' = "L293"
  /\ UNCHANGED <<x, domflg, out, wr, ret, retLine, n1, n2, statics, seen>>

\* Lines 293-294: Ai and Bi.
NegValue ==
  /\ pc = "L293"
  /\ out' = [out EXCEPT
               !.ai = FMul[loc.k, FSub[FMul[loc.f, loc.uf], FMul[loc.g, loc.ug]]],
               !.bi = FMul[loc.k, FAdd[FMul[loc.g, loc.uf], FMul[loc.f, loc.ug]]]]
  /\ wr' = [wr EXCEPT !.ai = 293, !.bi = 294]
  /\ pc' = "L295"
  /\ UNCHANGED <<x, domflg, loc, ret, retLine, n1, n2, statics, seen>>

\* Lines 295-296: uf and ug from the APFN/APFD and APGN/APGD tables.
NegDerivRational ==
  /\ pc = "L295"
  /\ loc' = [loc EXCEPT
               !.uf = RationalF[loc.zz, statics.APFN, statics.APFD],
               !.ug = RationalG[loc.z, loc.zz, statics.APGN, statics.APGD]]
  /\ pc' = "L297"
  /\ UNCHANGED <<x, domflg, out, wr, ret, retLine, n1, n2, statics, seen>>

\* Lines 297-300: k = sqpii * t, Ai' and Bi', and the return of the negative
\* branch.
NegDeriv ==
  /\ pc = "L297"
  /\ LET k == FMul[statics.sqpii, loc.t]
     IN /\ loc' = [loc EXCEPT !.k = k]
        /\ out' = [out EXCEPT
                     !.aip = FMul[FNeg[k], FAdd[FMul[loc.g, loc.uf], FMul[loc.f, loc.ug]]],
                     !.bip = FMul[k, FSub[FMul[loc.f, loc.uf], FMul[loc.g, loc.ug]]]]
  /\ wr' = [wr EXCEPT !.aip = 298, !.bip = 299]
  /\ ret' = 0
  /\ retLine' = 300
  /\ pc' = "done"
  /\ UNCHANGED <<x, domflg, n1, n2, statics, seen>>

\* Lines 303-306: into the positive asymptotic branch; t = sqrt(x), zeta.
PosEnter ==
  /\ pc = "L272"
  /\ ~IsOverflow(x)
  /\ ~InNegAsym(x)
  /\ InPosAsym(x)
  /\ domflg' = DomflgPos
  /\ LET t == FSqrt[x]
     IN loc' = [loc EXCEPT !.t = t,
                           !.zeta = FDiv[FMul[FMul[Two, x], t], Three]]
  /\ pc' = "L307"
  /\ UNCHANGED <<x, out, wr, ret, retLine, n1, n2, statics, seen>>

\* Line 307: g = exp(zeta).
PosExp ==
  /\ pc = "L307"
  /\ loc' = [loc EXCEPT !.g = FExp[loc.zeta]]
  /\ pc' = "L308"
  /\ UNCHANGED <<x, domflg, out, wr, ret, retLine, n1, n2, statics, seen>>

\* Lines 308-310: t = sqrt(t), k = 2 t g, z.
PosScale ==
  /\ pc = "L308"
  /\ LET t == RootOfRoot(loc.t)
     IN loc' = [loc EXCEPT !.t = t, !.k = FMul[FMul[Two, t], loc.g],
                           !.z = FDiv[One, loc.zeta]]
  /\ pc' = "L311"
  /\ UNCHANGED <<x, domflg, out, wr, ret, retLine, n1, n2, statics, seen>>

\* Lines 311-312: Ai from the AN/AD tables.
PosValue ==
  /\ pc = "L311"
  /\ LET f == FDiv[polevl[loc.z, statics.AN, 7], polevl[loc.z, statics.AD, 7]]
     IN /\ loc' = [loc EXCEPT !.f = f]
        /\ out' = [out EXCEPT !.ai = FDiv[FMul[statics.sqpii, f], loc.k]]
  /\ wr' = [wr EXCEPT !.ai = 312]
  /\ pc' = "L313"
  /\ UNCHANGED <<x, domflg, ret, retLine, n1, n2, statics, seen>>

\* Lines 313-315: Ai' from the APN/APD tables.
PosDeriv ==
  /\ pc = "L313"
  /\ LET k == FDiv[FMul[FMul[MinusHalf, statics.sqpii], loc.t], loc.g]
         f == FDiv[polevl[loc.z, statics.APN, 7], polevl[loc.z, statics.APD, 7]]
     IN /\ loc' = [loc EXCEPT !.k = k, !.f = f]
        /\ out' = [out EXCEPT !.aip = FMul[f, k]]
  /\ wr' = [wr EXCEPT !.aip = 315]
  /\ pc' = "L317"
  /\ UNCHANGED <<x, domflg, ret, retLine, n1, n2, statics, seen>>

\* Lines 317-320: Bi of the positive asymptotic branch, from BN16/BD16.
PosDirectValue ==
  /\ pc = "L317"
  /\ IsDirectBi(x)
  /\ LET f == FDiv[FMul[loc.z, polevl[loc.z, statics.BN16, 4]],
                   p1evl[loc.z, statics.BD16, 5]]
         k == FMul[statics.sqpii, loc.g]
     IN /\ loc' = [loc EXCEPT !.f = f, !.k = k]
        /\ out' = [out EXCEPT !.bi = FDiv[FMul[k, FAdd[One, f]], loc.t]]
  /\ wr' = [wr EXCEPT !.bi = 320]
  /\ pc' = "L321"
  /\ UNCHANGED <<x, domflg, ret, retLine, n1, n2, statics, seen>>

\* Lines 321-323: Bi' from BPPN/BPPD, and the return of the positive branch.
PosDirectDeriv ==
  /\ pc = "L321"
  /\ LET f == FDiv[FMul[loc.z, polevl[loc.z, statics.BPPN, 4]],
                   p1evl[loc.z, statics.BPPD, 5]]
     IN /\ loc' = [loc EXCEPT !.f = f]
        /\ out' = [out EXCEPT !.bip = FMul[FMul[loc.k, loc.t], FAdd[One, f]]]
  /\ wr' = [wr EXCEPT !.bip = 322]
  /\ ret' = 0
  /\ retLine' = 323
  /\ pc' = "done"
  /\ UNCHANGED <<x, domflg, n1, n2, statics, seen>>

\* Line 317 false: the positive branch falls through to the series.
PosFallThrough ==
  /\ pc = "L317"
  /\ ~IsDirectBi(x)
  /\ pc' = "L327"
  /\ UNCHANGED <<x, domflg, loc, out, wr, ret, retLine, n1, n2, statics, seen>>

\* Lines 272, 280, 303 all false: straight to the series.
NearZero ==
  /\ pc = "L272"
  /\ ~IsOverflow(x)
  /\ ~InNegAsym(x)
  /\ ~InPosAsym(x)
  /\ pc' = "L327"
  /\ UNCHANGED <<x, domflg, loc, out, wr, ret, retLine, n1, n2, statics, seen>>

\* Lines 327-333.
SeriesInit ==
  /\ pc = "L327"
  /\ loc' = [loc EXCEPT !.f = One, !.g = x, !.t = One, !.uf = One, !.ug = x,
                        !.k = One, !.z = FMul[FMul[x, x], x]]
  /\ pc' = "L334"
  /\ UNCHANGED <<x, domflg, out, wr, ret, retLine, n1, n2, statics, seen>>

\* Lines 334-347: one iteration of the series for Ai and Bi.
SeriesIter ==
  /\ pc = "L334"
  /\ LoopCond(loc.t)
  /\ LET z == loc.z
         uf1 == FMul[loc.uf, z]
         k1 == FAdd[loc.k, One]
         uf2 == FDiv[uf1, k1]
         ug1 == FMul[loc.ug, z]
         k2 == FAdd[k1, One]
         ug2 == FDiv[ug1, k2]
         uf3 == FDiv[uf2, k2]
         f == FAdd[loc.f, uf3]
         k3 == FAdd[k2, One]
         ug3 == FDiv[ug2, k3]
         g == FAdd[loc.g, ug3]
     IN loc' = [loc EXCEPT !.uf = uf3, !.ug = ug3, !.k = k3, !.f = f, !.g = g,
                           !.t = FAbs[FDiv[uf3, f]]]
  /\ n1' = IF n1 < MaxIter THEN n1 + 1 ELSE n1
  /\ UNCHANGED <<pc, x, domflg, out, wr, ret, retLine, n2, statics, seen>>

\* uf + ug for uf - ug.
SeriesAPlus(uf, ug) == FAdd[uf, ug]
\* uf - ug  (lines 351, 382)
SeriesA(uf, ug) == FSub[uf, ug]
\* sqrt3 * (uf + ug)  (lines 353, 384)
SeriesB(uf, ug) == FMul[statics.sqrt3, FAdd[uf, ug]]

\* Lines 334 (false), 348-353: Ai and Bi from the series, each stored only
\* when its bit of domflg is clear.
SeriesCombine ==
  /\ pc = "L334"
  /\ ~LoopCond(loc.t)
  /\ LET uf == FMul[statics.c1, loc.f]
         ug == FMul[statics.c2, loc.g]
         w1 == BitClear(domflg, 1)
         w2 == BitClear(domflg, 2)
     IN /\ loc' = [loc EXCEPT !.uf = uf, !.ug = ug]
        /\ out' = [out EXCEPT !.ai = IF w1 THEN SeriesA(uf, ug) ELSE @,
                              !.bi = IF w2 THEN SeriesB(uf, ug) ELSE @]
        /\ wr' = [wr EXCEPT !.ai = IF w1 THEN 351 ELSE @,
                            !.bi = IF w2 THEN 353 ELSE @]
  /\ pc' = "L356"
  /\ UNCHANGED <<x, domflg, ret, retLine, n1, n2, statics, seen>>

\* Lines 356-362.
DerivInit ==
  /\ pc = "L356"
  /\ LET uf == FDiv[FMul[x, x], Two]
         ug == FDiv[loc.z, Three]
     IN loc' = [loc EXCEPT !.k = Four, !.f = uf, !.g = FAdd[One, ug],
                           !.uf = FDiv[uf, Three], !.ug = ug, !.t = One]
  /\ pc' = "L364"
  /\ UNCHANGED <<x, domflg, out, wr, ret, retLine, n1, n2, statics, seen>>

\* Lines 364-377: one iteration of the series for Ai' and Bi'.
DerivIter ==
  /\ pc = "L364"
  /\ LoopCond(loc.t)
  /\ LET z == loc.z
         uf1 == FMul[loc.uf, z]
         ug1 == FDiv[loc.ug, loc.k]
         k1 == FAdd[loc.k, One]
         ug2 == FMul[ug1, z]
         uf2 == FDiv[uf1, k1]
         f == FAdd[loc.f, uf2]
         k2 == FAdd[k1, One]
         ug3 == FDiv[ug2, k2]
         uf3 == FDiv[uf2, k2]
         g == FAdd[loc.g, ug3]
         k3 == FAdd[k2, One]
     IN loc' = [loc EXCEPT !.uf = uf3, !.ug = ug3, !.k = k3, !.f = f, !.g = g,
                           !.t = FAbs[FDiv[ug3, g]]]
  /\ n2' = IF n2 < MaxIter THEN n2 + 1 ELSE n2
  /\ UNCHANGED <<pc, x, domflg, out, wr, ret, retLine, n1, statics, seen>>

\* Lines 364 (false), 379-385: Ai' and Bi' from the series, and the final
\* return.
DerivCombine ==
  /\ pc = "L364"
  /\ ~LoopCond(loc.t)
  /\ LET uf == FMul[statics.c1, loc.f]
         ug == FMul[statics.c2, loc.g]
         w4 == BitClear(domflg, 4)
         w8 == BitClear(domflg, 8)
     IN /\ loc' = [loc EXCEPT !.uf = uf, !.ug = ug]
        /\ out' = [out EXCEPT !.aip = IF w4 THEN SeriesA(uf, ug) ELSE @,
                              !.bip = IF w8 THEN SeriesB(uf, ug) ELSE @]
        /\ wr' = [wr EXCEPT !.aip = IF w4 THEN 382 ELSE @,
                            !.bip = IF w8 THEN 384 ELSE @]
  /\ ret' = 0
  /\ retLine' = 385
  /\ pc' = "done"
  /\ UNCHANGED <<x, domflg, n1, n2, statics, seen>>

\* The steps of a call in progress.
Step ==
  \/ Overflow
  \/ NegEnter
  \/ NegScale
  \/ NegRational
  \/ NegTrig
  \/ NegValue
  \/ NegDerivRational
  \/ NegDeriv
  \/ PosEnter
  \/ PosExp
  \/ PosScale
  \/ PosValue
  \/ PosDeriv
  \/ PosDirectValue
  \/ PosDirectDeriv
  \/ PosFallThrough
  \/ NearZero
  \/ SeriesInit
  \/ SeriesIter
  \/ SeriesCombine
  \/ DerivInit
  \/ DerivIter
  \/ DerivCombine

Next ==
  \/ \E xx \in Inputs, keep \in BOOLEAN : Call(xx, keep)
  \/ Step

Spec == Init /\ [][Next]_vars

\* Termination does not depend on what the caller remembers: the calls of a
\* caller that remembers none.  A call runs on one thread and nothing
\* suspends it: a step that is enabled is taken.
LiveNext ==
  \/ \E xx \in Inputs : Call(xx, TRUE)
  \/ Step

LiveSpec == Init /\ [][LiveNext]_vars /\ WF_vars(Step)

(***************************************************************************)
(* Properties.  A returned call is a state with pc = "done"; the line of   *)
(* the return taken and the line that stored each output last tell the     *)
(* path the call took.                                                     *)
(***************************************************************************)
Returned == pc = "done"
NegPcs == {"L284", "L288", "L290", "L293", "L295", "L297"}
PosPcs == {"L307", "L308", "L311", "L313", "L317", "L321"}
SeriesPcs == {"L327", "L334", "L356", "L364"}
RanNegative == retLine = 300
RanPositive == wr.aip = 315
RanDirectBi == retLine = 323
RanSeries == retLine = 385

\* C1: the status is -1 exactly when x > MAXAIRY (25.77); the outputs are
\* then 0, 0, MAXNUM, MAXNUM; every x <= 25.77, 25.77 included, returns 0.
C1_OverflowStatus ==
  Returned =>
    /\ ret = -1 <=> FGt[x, MAXAIRY]
    /\ FGt[x, MAXAIRY] =>
         out = [ai |-> Zero, aip |-> Zero, bi |-> MAXNUM, bip |-> MAXNUM]
    /\ FLe[x, MAXAIRY] => ret = 0
C1_Witness ==
  /\ Returned /\ x = NextUp[MAXAIRY] /\ ret = -1
  /\ seen.valid /\ seen.x = MAXAIRY /\ seen.ret = 0

\* C2: a call with a finite x has stored all four outputs when it returns,
\* whichever path it took.
C2_AllWritten ==
  Returned /\ IsFinite(x) =>
    /\ wr.ai # 0 /\ wr.aip # 0 /\ wr.bi # 0 /\ wr.bip # 0
    /\ out.ai # Undef /\ out.aip # Undef /\ out.bi # Undef /\ out.bip # Undef
C2_Witness ==
  /\ Returned /\ IsFinite(x) /\ wr.ai = 312 /\ wr.aip = 315
  /\ wr.bi = 353 /\ wr.bip = 384 /\ ~IsNaN(out.bi)

\* C3: for a finite x <= 25.77 the negative branch runs iff x < -2.09, the
\* positive branch iff x >= 2.09, Bi and Bi' are computed in the positive
\* branch iff x > 8.3203353, and the series runs iff
\* -2.09 <= x <= 8.3203353.
C3_Regimes ==
  /\ IsFinite(x) /\ pc \in NegPcs => FLt[x, N209]
  /\ IsFinite(x) /\ pc \in PosPcs => FGe[x, P209] /\ FLe[x, MAXAIRY]
  /\ IsFinite(x) /\ pc = "L321" => FGt[x, T832]
  /\ IsFinite(x) /\ pc \in SeriesPcs => FGe[x, N209] /\ FLe[x, T832]
  /\ Returned /\ IsFinite(x) /\ FLe[x, MAXAIRY] =>
       /\ RanNegative <=> FLt[x, N209]
       /\ RanPositive <=> FGe[x, P209]
       /\ RanDirectBi <=> FGt[x, T832]
       /\ RanSeries <=> FGe[x, N209] /\ FLe[x, T832]
C3_Witness ==
  /\ Returned /\ x = T832 /\ RanPositive /\ RanSeries
  /\ seen.valid /\ seen.x = P209 /\ seen.out.aip # Undef

\* C4: for 2.09 <= x <= 8.3203353 (domflg = 5) the series stores only Bi and
\* Bi' and leaves the Ai and Ai' of the positive branch as they are; for
\* -2.09 <= x < 2.09 (domflg = 0) the series stores all four.
SeriesKeepsAi ==
  pc \in SeriesPcs /\ FGe[x, P209] => out'.ai = out.ai /\ out'.aip = out.aip
C4_SeriesFrame ==
  /\ [](Returned /\ FGe[x, P209] /\ FLe[x, T832] =>
          /\ domflg = 5
          /\ wr = [ai |-> 312, aip |-> 315, bi |-> 353, bip |-> 384])
  /\ [](Returned /\ FGe[x, N209] /\ FLt[x, P209] =>
          /\ domflg = 0
          /\ wr = [ai |-> 351, aip |-> 382, bi |-> 353, bip |-> 384])
  /\ [][SeriesKeepsAi]_vars
C4_Witness ==
  /\ Returned /\ x = FromInt[5] /\ domflg = 5 /\ n1 > 1 /\ n2 > 1
  /\ wr.ai = 312 /\ wr.bip = 384

\* C5: at x = 0 the outputs are exactly c1, -c2, sqrt3 c1, sqrt3 c2 with
\* status 0; each loop makes one iteration, and leaves (f, g) = (1, 0) for
\* the values and (0, 1) for the derivatives.
C5_AtZero ==
  /\ pc = "L356" /\ x = Zero => n1 = 1 /\ loc.f = One /\ loc.g = Zero
  /\ Returned /\ x = Zero =>
       /\ ret = 0 /\ n1 = 1 /\ n2 = 1
       /\ loc.f = Zero /\ loc.g = One
       /\ out = [ai |-> c1, aip |-> FNeg[c2],
                 bi |-> FMul[sqrt3, c1], bip |-> FMul[sqrt3, c2]]
C5_Witness == Returned /\ x = Zero /\ n2 = 1 /\ out.ai = c1 /\ ~seen.valid

\* C6: no call writes a static, and two calls with the same x, whatever
\* calls are made in between, return the same status and the same outputs.
C6_Pure ==
  /\ statics = StaticsInit
  /\ Returned /\ seen.valid /\ seen.x = x => ret = seen.ret /\ out = seen.out
C6_Witness ==
  /\ Returned /\ seen.valid /\ seen.x = x /\ x = One
  /\ out = seen.out /\ IsFinite(out.ai)

\* C7 as stated: a call with x <= 25.77 returns only from the final return.
C7_OnlyFinalReturn == Returned /\ FLe[x, MAXAIRY] => retLine = 385

\* C7, amended: the overflow return is the only one with status -1; the
\* negative branch returns at its end (x < -2.09), the positive branch at
\* its end when x > 8.3203353, and the final return is taken by the calls
\* that run the series.
C7_Returns ==
  Returned =>
    /\ retLine \in {277, 300, 323, 385}
    /\ retLine = 277 <=> FGt[x, MAXAIRY]
    /\ retLine = 300 <=> FLt[x, N209]
    /\ retLine = 323 <=> FGt[x, T832] /\ FLe[x, MAXAIRY]
    /\ ret = -1 <=> retLine = 277
C7_Witness == Returned /\ retLine = 300 /\ ret = 0 /\ x = FromInt[-10]

\* C8 as stated: at x = -2.09 exactly Ai and Bi come from the negative
\* asymptotic branch.
C8_NegativeAtThreshold ==
  Returned /\ x = N209 => wr.ai = 293 /\ wr.bi = 294

\* C8, amended: at x = -2.09 exactly Ai and Bi come from the series; the
\* negative asymptotic branch computes them for every x < -2.09.
C8_SeriesAtThreshold ==
  /\ Returned /\ x = N209 =>
       wr.ai = 351 /\ wr.bi = 353 /\ domflg = 0 /\ n1 > 0
  /\ Returned /\ FLt[x, N209] => wr.ai = 293 /\ wr.bi = 294
C8_Witness ==
  /\ Returned /\ x = N209 /\ wr.ai = 351
  /\ seen.valid /\ seen.x = NextDown[N209] /\ seen.ret = 0

\* C9: both convergence loops terminate: a call that enters the series
\* returns.
C9_LoopsTerminate ==
  /\ (pc = "L334") ~> (pc = "L356")
  /\ (pc = "L364") ~> Returned
C9_Witness ==
  Returned /\ RanSeries /\ n1 > 8 /\ n1 < MaxIter /\ n2 > 8 /\ n2 < MaxIter

\* C10 as stated: in the negative branch the derivative scale factor is
\* sqpii * t with t = sqrt(-x), the t that forms zeta.
C10_DerivScaleRoot ==
  Returned /\ RanNegative => loc.k = FMul[sqpii, FSqrt[FNeg[x]]]

\* C10, amended: in the negative branch zeta is formed with sqrt(-x), and
\* both scale factors with t = sqrt(sqrt(-x)): k = sqpii / t for Ai and Bi,
\* k' = sqpii * t for Ai' = -k'(g uf + f ug) and Bi' = k'(f uf - g ug).
C10_Scales ==
  /\ pc \in NegPcs =>
       loc.zeta = FDiv[FMul[FMul[MinusTwo, x], FSqrt[FNeg[x]]], Three]
  /\ pc \in NegPcs \ {"L284"} =>
       /\ loc.t = FSqrt[FSqrt[FNeg[x]]]
       /\ loc.k = FDiv[sqpii, loc.t]
  /\ Returned /\ RanNegative =>
       /\ loc.k = FMul[sqpii, FSqrt[FSqrt[FNeg[x]]]]
       /\ out.aip = FMul[FNeg[loc.k], FAdd[FMul[loc.g, loc.uf], FMul[loc.f, loc.ug]]]
       /\ out.bip = FMul[loc.k, FSub[FMul[loc.f, loc.uf], FMul[loc.g, loc.ug]]]
C10_Witness ==
  /\ Returned /\ RanNegative /\ x = FromInt[-5]
  /\ loc.k # FMul[sqpii, FSqrt[FNeg[x]]] /\ IsFinite(out.aip)

====
